---------------------------- MODULE Spec2Model ----------------------------
(***************************************************************************)
(* LumaScreen ring light overlay: the parameter store (the setters of      *)
(* RingLightOverlay), the geometry poll and the two renderers              *)
(* (paintEvent of ringlight.py, the rounded frame, and paintEvent of       *)
(* ringlight_original.py, the layered bloom).                              *)
(*                                                                         *)
(* Numbers.  A Python float (a numeric argument, the stored brightness) is *)
(* kept in fixed point as a count of 1/200: Float(3) is 3.0, Halves(7) is  *)
(* 3.5 and brightness 1.0 is 200, so that int() truncates and v / 100.0    *)
(* divides.  The numeric arguments are whole numbers and halves, which are *)
(* exact binary floats; for them the float results of the source           *)
(* (v / 100.0, int(255 * brightness), int(t * mul)) equal the exact ones.  *)
(***************************************************************************)
EXTENDS Integers, Sequences, FiniteSets, TLC

VARIABLES
    variant,      \* which source file runs: "ringlight" or "ringlight_original"
    thickness,    \* RingLightOverlay.thickness (int, pixels)
    brightness,   \* RingLightOverlay.brightness, as a count of 1/200
    color,        \* RingLightOverlay.color, the RGB triple of a valid QColor
    geometry,     \* QWidget.geometry() of the overlay
    visible,      \* QWidget.isVisible() of the overlay
    screen,       \* QApplication.primaryScreen(): NoScreen or a display
    call,         \* the last operation that ran and its argument
    outcome,      \* what that operation did besides storing: raised, warned, updated
    frame,        \* the draw commands of the last operation, when it was a paint
    brightness_slider,  \* ControlPanel.brightness_slider.value()
    thickness_slider,   \* ControlPanel.thickness_slider.value()
    toggle_btn,   \* ControlPanel.toggle_btn.text(): "Turn On" or "Turn Off"
    panel_open,   \* the control panel window exists
    overlay_open, \* the overlay window has not been closed
    app_running   \* QApplication.exec() has not been told to quit

\* the state of the control panel and of the application
panel == <<brightness_slider, thickness_slider, toggle_btn, panel_open,
           overlay_open, app_running>>

vars == <<variant, thickness, brightness, color, geometry, visible, screen,
          call, outcome, frame, panel>>

----------------------------------------------------------------------------
(* Bounds of the model *)

\* how far beyond a documented limit the numeric arguments go
Over == 1

----------------------------------------------------------------------------
(* Fixed point and Python arithmetic *)

\* the integer n as a float
Float(n) == 200 * n

\* the float n / 2
Halves(n) == 100 * n

\* the float n / 100
Hundredths(n) == 2 * n

Max(a, b) == IF a >= b THEN a ELSE b

Min(a, b) == IF a <= b THEN a ELSE b

\* int(x) of a float x: truncation toward zero
PyInt(x) == IF x >= 0 THEN x \div 200 ELSE -((-x) \div 200)

\* x / 100.0
DivideBy100(x) == x \div 100

----------------------------------------------------------------------------
(* RingLightConfig *)

DEFAULT_THICKNESS == 220

\* DEFAULT_BRIGHTNESS: 1.0 in ringlight.py, 0.80 in ringlight_original.py
DEFAULT_BRIGHTNESS(v) == IF v = "ringlight" THEN Float(1) ELSE Hundredths(80)

DEFAULT_COLOR == <<255, 255, 255>>

MIN_THICKNESS == 1

MAX_THICKNESS == 900

MIN_BRIGHTNESS_PERCENT == 0

MAX_BRIGHTNESS_PERCENT == 200

MIN_BRIGHTNESS == Float(0)

MAX_BRIGHTNESS == Float(2)

SCREEN_MARGIN == 10

OUTER_CORNER_RADIUS == 20

\* the literal cap of the bloom renderer ("cap extra de seguranca")
BLOOM_ALPHA_CAP == 220

\* (intensity, size_multiplier) in hundredths
BLOOM_LAYERS == << <<100, 100>>, <<70, 75>>, <<45, 55>>, <<25, 40>> >>

----------------------------------------------------------------------------
(* Values *)

Variants == {"ringlight", "ringlight_original"}

\* a numeric argument (int or float) and an argument that is no number (None)
Number(x) == [kind |-> "number", val |-> x]

NotNumeric == [kind |-> "other", val |-> 0]

IsNumeric(a) == a.kind = "number"

\* QColor values: valid ones, the invalid QColor(), None, and an object that
\* is no QColor (a tuple of channels)
QColor(rgb) == [kind |-> "QColor", valid |-> TRUE, rgb |-> rgb]

InvalidQColor == [kind |-> "QColor", valid |-> FALSE, rgb |-> <<0, 0, 0>>]

NoneColor == [kind |-> "None", valid |-> FALSE, rgb |-> <<0, 0, 0>>]

NotAQColor == [kind |-> "other", valid |-> FALSE, rgb |-> <<255, 0, 0>>]

WARM == <<255, 240, 220>>

\* QRect
QRect(x, y, w, h) == [x |-> x, y |-> y, width |-> w, height |-> h]

\* QApplication.primaryScreen() is None
NoScreen == QRect(0, 0, -1, -1)

\* the geometry of a QWidget that was never given one
WIDGET_DEFAULT_GEOMETRY == QRect(0, 0, 640, 480)

\* the geometries the primary display takes: degenerate ones, ones smaller
\* than the margins, ones at the edge of the thickness cap, odd and even ones
Displays ==
    { QRect(0, 0, 0, 100), QRect(0, 0, 100, 0), QRect(0, 0, 15, 40),
      QRect(0, 0, 20, 20), QRect(0, 0, 22, 22),
      QRect(0, 0, 200, 200), QRect(0, 0, 201, 300), QRect(0, 0, 1920, 1080) }

\* the arguments tried on set_thickness
ThicknessArgs ==
    { Number(Float(n)) : n \in (-Over .. 1) \cup {19, 20}
                              \cup (MAX_THICKNESS .. MAX_THICKNESS + Over) }
    \cup { Number(Halves(n)) : n \in {-1, 1, 3} }
    \cup { NotNumeric }

\* the arguments tried on set_brightness_percent
BrightnessArgs ==
    { Number(Float(n)) : n \in (-Over .. 1) \cup {100}
                  \cup (MAX_BRIGHTNESS_PERCENT .. MAX_BRIGHTNESS_PERCENT + Over) }
    \cup { Number(Halves(101)) }
    \cup { NotNumeric }

\* the arguments tried on set_color
ColorArgs ==
    { QColor(DEFAULT_COLOR), QColor(WARM), InvalidQColor, NoneColor, NotAQColor }

NoCall == [op |-> "__init__", arg |-> NotNumeric]

Outcome(raised, warned, updated) ==
    [raised |-> raised, warned |-> warned, updated |-> updated]

Quiet == Outcome("", FALSE, FALSE)

\* nothing drawn
NoFrame == << >>

\* QAbstractSlider.setValue(v) on a slider of range lo..hi: the value is
\* forced into the range
SliderValue(lo, hi, v) == Max(lo, Min(hi, v))

\* the values a user drags the brightness slider to
SliderPercents == {0, 120, 200}

\* the values a user drags the thickness slider to
SliderPixels == {1, 280, 900}

SOFT == <<255, 250, 240>>

Preset(b, t, c) == [brightness |-> b, thickness |-> t, color |-> c]

\* the four preset buttons: Warm, Cool, Soft, Intense
Presets ==
    << Preset(100, 250, QColor(WARM)),
       Preset(120, 280, QColor(<<255, 255, 255>>)),
       Preset(80, 300, QColor(SOFT)),
       Preset(150, 200, QColor(<<255, 255, 255>>)) >>

\* what QColorDialog.getColor returns: a color, or an invalid one on cancel
PickedColors == {QColor(WARM), QColor(SOFT), InvalidQColor}

\* the displays of the control panel's runs
PanelScreens == {QRect(0, 0, 201, 300), QRect(0, 0, 1920, 1080), NoScreen}

----------------------------------------------------------------------------
(* RingLightOverlay.__init__ and ControlPanel.__init__ *)

Init ==
    /\ variant \in Variants
    /\ thickness = DEFAULT_THICKNESS
    /\ brightness = DEFAULT_BRIGHTNESS(variant)
    /\ color = DEFAULT_COLOR
    /\ screen \in Displays \cup {NoScreen}
    /\ geometry = IF screen = NoScreen THEN WIDGET_DEFAULT_GEOMETRY ELSE screen
    /\ visible = TRUE
    /\ call = NoCall
    /\ outcome = Quiet
    /\ frame = NoFrame
    /\ brightness_slider =
           SliderValue(MIN_BRIGHTNESS_PERCENT, MAX_BRIGHTNESS_PERCENT,
                       PyInt(100 * brightness))
    /\ thickness_slider = SliderValue(MIN_THICKNESS, MAX_THICKNESS, thickness)
    /\ toggle_btn = "Turn Off"
    /\ panel_open = TRUE
    /\ overlay_open = TRUE
    /\ app_running = TRUE

----------------------------------------------------------------------------
(* The setters *)

\* max(MIN_BRIGHTNESS, min(MAX_BRIGHTNESS, value_0_200 / 100.0))
ClampBrightness(x) == Max(MIN_BRIGHTNESS, Min(MAX_BRIGHTNESS, DivideBy100(x)))

\* not (MIN_BRIGHTNESS_PERCENT <= value_0_200 <= MAX_BRIGHTNESS_PERCENT)
BrightnessOutOfRange(x) ==
    ~(Float(MIN_BRIGHTNESS_PERCENT) <= x /\ x <= Float(MAX_BRIGHTNESS_PERCENT))

\* what set_brightness_percent does besides storing
BrightnessOutcome(v, value) ==
    IF IsNumeric(value)
    THEN Outcome("", v = "ringlight" /\ BrightnessOutOfRange(value.val), TRUE)
    ELSE Outcome(IF v = "ringlight" THEN "ValueError" ELSE "TypeError", FALSE, FALSE)

set_brightness_percent(value) ==
    /\ call' = [op |-> "set_brightness_percent", arg |-> value]
    /\ outcome' = BrightnessOutcome(variant, value)
    /\ brightness' = IF IsNumeric(value) THEN ClampBrightness(value.val)
                                         ELSE brightness
    /\ frame' = NoFrame
    /\ UNCHANGED <<variant, thickness, color, geometry, visible, screen>>
    /\ UNCHANGED panel

\* set_thickness without its minimum: int(pixels)
ClampThickness_no_minimum(x) == PyInt(x)

\* max(MIN_THICKNESS, int(pixels))
ClampThickness(x) == Max(MIN_THICKNESS, PyInt(x))

\* what set_thickness does besides storing
ThicknessOutcome(v, pixels) ==
    IF IsNumeric(pixels)
    THEN Outcome("", v = "ringlight" /\ pixels.val < Float(MIN_THICKNESS), TRUE)
    ELSE Outcome(IF v = "ringlight" THEN "ValueError" ELSE "TypeError", FALSE, FALSE)

\* set_thickness taking its argument as a change of the stored thickness
set_thickness_relative(pixels) ==
    /\ call' = [op |-> "set_thickness", arg |-> pixels]
    /\ outcome' = ThicknessOutcome(variant, pixels)
    /\ thickness' = IF IsNumeric(pixels)
                    THEN ClampThickness(Float(thickness) + pixels.val)
                    ELSE thickness
    /\ frame' = NoFrame
    /\ UNCHANGED <<variant, brightness, color, geometry, visible, screen>>
    /\ UNCHANGED panel

set_thickness(pixels) ==
    /\ call' = [op |-> "set_thickness", arg |-> pixels]
    /\ outcome' = ThicknessOutcome(variant, pixels)
    /\ thickness' = IF IsNumeric(pixels) THEN ClampThickness(pixels.val)
                                         ELSE thickness
    /\ frame' = NoFrame
    /\ UNCHANGED <<variant, brightness, color, geometry, visible, screen>>
    /\ UNCHANGED panel

\* set_color without its isValid() test
ColorAccepted_unvalidated(new_color) == new_color.kind = "QColor"

\* the color is stored: it is a QColor and isValid()
ColorAccepted(new_color) == new_color.kind = "QColor" /\ new_color.valid

\* what set_color does besides storing
ColorOutcome(v, new_color) ==
    CASE new_color.kind = "None" -> Outcome("", v = "ringlight", FALSE)
      [] new_color.kind = "other" ->
            Outcome(IF v = "ringlight" THEN "ValueError" ELSE "AttributeError",
                    FALSE, FALSE)
      [] new_color.kind = "QColor" /\ ~new_color.valid ->
            Outcome("", v = "ringlight", FALSE)
      [] OTHER -> Outcome("", FALSE, TRUE)

set_color(new_color) ==
    /\ call' = [op |-> "set_color", arg |-> new_color]
    /\ outcome' = ColorOutcome(variant, new_color)
    /\ color' = IF ColorAccepted(new_color) THEN new_color.rgb ELSE color
    /\ frame' = NoFrame
    /\ UNCHANGED <<variant, thickness, brightness, geometry, visible, screen>>
    /\ UNCHANGED panel

----------------------------------------------------------------------------
(* The geometry poll *)

\* the primary display is reconfigured, unplugged or plugged
ScreenChange ==
    /\ screen' \in (Displays \cup {NoScreen}) \ {screen}
    /\ UNCHANGED <<variant, thickness, brightness, color, geometry, visible,
                   call, outcome, frame>>
    /\ UNCHANGED panel

\* the poll without its comparison: setGeometry() and update() on every tick
apply_screen_geometry_always_updates ==
    /\ call' = [op |-> "_apply_screen_geometry", arg |-> NotNumeric]
    /\ frame' = NoFrame
    /\ IF screen = NoScreen
       THEN /\ outcome' = Outcome("", TRUE, FALSE)
            /\ UNCHANGED geometry
       ELSE /\ geometry' = screen
            /\ outcome' = Outcome("", FALSE, TRUE)
    /\ UNCHANGED <<variant, thickness, brightness, color, visible, screen>>
    /\ UNCHANGED panel

\* the poll without its setGeometry(): it only signals the re-render
apply_screen_geometry_without_setGeometry ==
    /\ call' = [op |-> "_apply_screen_geometry", arg |-> NotNumeric]
    /\ frame' = NoFrame
    /\ outcome' = IF screen = NoScreen THEN Outcome("", TRUE, FALSE)
                  ELSE IF geometry # screen THEN Outcome("", FALSE, TRUE)
                  ELSE Quiet
    /\ UNCHANGED <<variant, thickness, brightness, color, geometry, visible,
                   screen>>
    /\ UNCHANGED panel

apply_screen_geometry ==
    /\ call' = [op |-> "_apply_screen_geometry", arg |-> NotNumeric]
    /\ frame' = NoFrame
    /\ IF screen = NoScreen
       THEN /\ outcome' = Outcome("", TRUE, FALSE)
            /\ UNCHANGED geometry
       ELSE IF geometry # screen
            THEN /\ geometry' = screen
                 /\ outcome' = Outcome("", FALSE, TRUE)
            ELSE /\ outcome' = Quiet
                 /\ UNCHANGED geometry
    /\ UNCHANGED <<variant, thickness, brightness, color, visible, screen>>
    /\ UNCHANGED panel

----------------------------------------------------------------------------
(* paintEvent of ringlight.py: the rounded frame *)

NullRect == QRect(0, 0, 0, 0)

\* painter.fillPath(outer_path.subtracted(inner_path), solid_color)
FillPath(outer, radius, inner, inner_r, rgb, a, t) ==
    [cmd |-> "fillPath", layer |-> 0, edge |-> "frame", rect |-> outer,
     radius |-> radius, hole |-> inner, hole_radius |-> inner_r, rgb |-> rgb,
     alpha |-> a, size |-> t]

\* the half of the smaller side rounded up instead of down
max_thickness_rounded_up(width, height) ==
    Max(MIN_THICKNESS, ((Min(width, height) + 1) \div 2) - SCREEN_MARGIN)

\* max(MIN_THICKNESS, min_dimension // 2 - margin)
max_thickness(width, height) ==
    Max(MIN_THICKNESS, (Min(width, height) \div 2) - SCREEN_MARGIN)

\* min(self.thickness, max_thickness)
effective_thickness(t, width, height) == Min(t, max_thickness(width, height))

\* the alpha without its upper clamp
frame_alpha_uncapped(b) == Max(0, PyInt(255 * b))

\* alpha = int(255 * self.brightness); alpha = max(0, min(255, alpha))
frame_alpha(b) == Max(0, Min(255, PyInt(255 * b)))

outer_rect(width, height) ==
    QRect(SCREEN_MARGIN, SCREEN_MARGIN,
          width - 2 * SCREEN_MARGIN, height - 2 * SCREEN_MARGIN)

inner_rect(t, width, height) ==
    QRect(SCREEN_MARGIN + effective_thickness(t, width, height),
          SCREEN_MARGIN + effective_thickness(t, width, height),
          width - 2 * (SCREEN_MARGIN + effective_thickness(t, width, height)),
          height - 2 * (SCREEN_MARGIN + effective_thickness(t, width, height)))

\* the inner radius without its floor at 0
inner_radius_unfloored(t, width, height) ==
    OUTER_CORNER_RADIUS - effective_thickness(t, width, height)

\* max(0, radius - effective_thickness)
inner_radius(t, width, height) ==
    Max(0, OUTER_CORNER_RADIUS - effective_thickness(t, width, height))

\* if width <= 0 or height <= 0: return
InvalidDimensions(width, height) == width <= 0 \/ height <= 0

RoundedFrame(t, b, rgb, width, height) ==
    IF InvalidDimensions(width, height)
    THEN NoFrame
    ELSE << FillPath(outer_rect(width, height), OUTER_CORNER_RADIUS,
                     inner_rect(t, width, height), inner_radius(t, width, height),
                     rgb, frame_alpha(b), effective_thickness(t, width, height)) >>

----------------------------------------------------------------------------
(* paintEvent of ringlight_original.py: the layered bloom *)

\* p.fillRect(rect, grad): a gradient from (rgb, a) at the edge to (rgb, 0)
\* at distance size
FillRect(layer, edge, rect, rgb, a, size) ==
    [cmd |-> "fillRect", layer |-> layer, edge |-> edge, rect |-> rect,
     radius |-> 0, hole |-> NullRect, hole_radius |-> 0, rgb |-> rgb,
     alpha |-> a, size |-> size]

\* the bloom thickness without its cap at the smaller side
bloom_thickness_uncapped(t, w, h) == t

\* t = min(self.thickness, max(1, min(w, h)))
bloom_thickness(t, w, h) == Min(t, Max(1, Min(w, h)))

\* the band size rounded up instead of truncated
layer_size_rounded_up(t, mul) == Max(1, (t * mul + 99) \div 100)

\* size = max(1, int(t * mul)), mul in hundredths
layer_size(t, mul) == Max(1, (t * mul) \div 100)

\* the layer alpha capped at full opacity instead of 220
layer_alpha_capped_at_255(b, intensity) ==
    Max(0, Min(255, (255 * b * intensity) \div (200 * 100)))

\* alpha = int(255 * self.brightness * intensity); alpha = max(0, min(220, alpha))
layer_alpha(b, intensity) ==
    Max(0, Min(BLOOM_ALPHA_CAP, (255 * b * intensity) \div (200 * 100)))

\* the four bands of one layer: TOP, BOTTOM, LEFT, RIGHT
LayerBands(i, size, a, rgb, w, h) ==
    << FillRect(i, "TOP", QRect(0, 0, w, size), rgb, a, size),
       FillRect(i, "BOTTOM", QRect(0, h - size, w, size), rgb, a, size),
       FillRect(i, "LEFT", QRect(0, 0, size, h), rgb, a, size),
       FillRect(i, "RIGHT", QRect(w - size, 0, size, h), rgb, a, size) >>

RECURSIVE BloomLayers(_, _, _, _, _, _)
\* for intensity, mul in layers: ..., from layer i on
BloomLayers(i, t, b, rgb, w, h) ==
    IF i > Len(BLOOM_LAYERS)
    THEN << >>
    ELSE LayerBands(i, layer_size(bloom_thickness(t, w, h), BLOOM_LAYERS[i][2]),
                    layer_alpha(b, BLOOM_LAYERS[i][1]), rgb, w, h)
         \o BloomLayers(i + 1, t, b, rgb, w, h)

BloomFrame(t, b, rgb, w, h) == BloomLayers(1, t, b, rgb, w, h)

----------------------------------------------------------------------------
(* paintEvent *)

PaintOutcome(v, width, height) ==
    Outcome("", v = "ringlight" /\ InvalidDimensions(width, height), FALSE)

\* a paint that stores the thickness it capped
paintEvent_writes_back ==
    /\ visible
    /\ call' = [op |-> "paintEvent", arg |-> NotNumeric]
    /\ outcome' = PaintOutcome(variant, geometry.width, geometry.height)
    /\ frame' = IF variant = "ringlight"
                THEN RoundedFrame(thickness, brightness, color,
                                  geometry.width, geometry.height)
                ELSE BloomFrame(thickness, brightness, color,
                                geometry.width, geometry.height)
    /\ thickness' = IF variant = "ringlight"
                    THEN effective_thickness(thickness, geometry.width,
                                             geometry.height)
                    ELSE bloom_thickness(thickness, geometry.width,
                                         geometry.height)
    /\ UNCHANGED <<variant, brightness, color, geometry, visible, screen>>
    /\ UNCHANGED panel

paintEvent ==
    /\ visible
    /\ call' = [op |-> "paintEvent", arg |-> NotNumeric]
    /\ outcome' = PaintOutcome(variant, geometry.width, geometry.height)
    /\ frame' = IF variant = "ringlight"
                THEN RoundedFrame(thickness, brightness, color,
                                  geometry.width, geometry.height)
                ELSE BloomFrame(thickness, brightness, color,
                                geometry.width, geometry.height)
    /\ UNCHANGED <<variant, thickness, brightness, color, geometry, visible,
                   screen>>
    /\ UNCHANGED panel

----------------------------------------------------------------------------
(* ControlPanel: the handlers of its widgets *)

\* _on_brightness_changed that only updates the label
on_brightness_changed_label_only(value) ==
    /\ app_running
    /\ value # brightness_slider
    /\ brightness_slider' = value
    /\ call' = [op |-> "_on_brightness_changed", arg |-> Number(Float(value))]
    /\ outcome' = Quiet
    /\ frame' = NoFrame
    /\ UNCHANGED <<variant, thickness, brightness, color, geometry, visible,
                   screen, thickness_slider, toggle_btn, panel_open,
                   overlay_open, app_running>>

\* the brightness slider is dragged to value: valueChanged(value)
on_brightness_changed(value) ==
    /\ app_running
    /\ value # brightness_slider
    /\ brightness_slider' = value
    /\ brightness' = ClampBrightness(Float(value))
    /\ call' = [op |-> "_on_brightness_changed", arg |-> Number(Float(value))]
    /\ outcome' = BrightnessOutcome(variant, Number(Float(value)))
    /\ frame' = NoFrame
    /\ UNCHANGED <<variant, thickness, color, geometry, visible, screen,
                   thickness_slider, toggle_btn, panel_open, overlay_open,
                   app_running>>

\* the thickness slider is dragged to value: valueChanged(value)
on_thickness_changed(value) ==
    /\ app_running
    /\ value # thickness_slider
    /\ thickness_slider' = value
    /\ thickness' = ClampThickness(Float(value))
    /\ call' = [op |-> "_on_thickness_changed", arg |-> Number(Float(value))]
    /\ outcome' = ThicknessOutcome(variant, Number(Float(value)))
    /\ frame' = NoFrame
    /\ UNCHANGED <<variant, brightness, color, geometry, visible, screen,
                   brightness_slider, toggle_btn, panel_open, overlay_open,
                   app_running>>

\* a preset that leaves the color as it is
apply_preset_without_color(p) ==
    /\ app_running
    /\ variant = "ringlight"
    /\ LET b == SliderValue(MIN_BRIGHTNESS_PERCENT, MAX_BRIGHTNESS_PERCENT,
                            p.brightness)
           t == SliderValue(MIN_THICKNESS, MAX_THICKNESS, p.thickness)
       IN  /\ brightness_slider' = b
           /\ brightness' = IF b # brightness_slider
                            THEN ClampBrightness(Float(b)) ELSE brightness
           /\ thickness_slider' = t
           /\ thickness' = IF t # thickness_slider
                           THEN ClampThickness(Float(t)) ELSE thickness
    /\ call' = [op |-> "_apply_preset", arg |-> p]
    /\ outcome' = Quiet
    /\ frame' = NoFrame
    /\ UNCHANGED <<variant, color, geometry, visible, screen, toggle_btn,
                   panel_open, overlay_open, app_running>>

\* a preset button is clicked: both sliders are set, and a slider emits
\* valueChanged, which calls the overlay's setter, only if its value
\* changes; then the color is set
apply_preset(p) ==
    /\ app_running
    /\ variant = "ringlight"
    /\ LET b == SliderValue(MIN_BRIGHTNESS_PERCENT, MAX_BRIGHTNESS_PERCENT,
                            p.brightness)
           t == SliderValue(MIN_THICKNESS, MAX_THICKNESS, p.thickness)
       IN  /\ brightness_slider' = b
           /\ brightness' = IF b # brightness_slider
                            THEN ClampBrightness(Float(b)) ELSE brightness
           /\ thickness_slider' = t
           /\ thickness' = IF t # thickness_slider
                           THEN ClampThickness(Float(t)) ELSE thickness
    /\ color' = IF ColorAccepted(p.color) THEN p.color.rgb ELSE color
    /\ call' = [op |-> "_apply_preset", arg |-> p]
    /\ outcome' = ColorOutcome(variant, p.color)
    /\ frame' = NoFrame
    /\ UNCHANGED <<variant, geometry, visible, screen, toggle_btn, panel_open,
                   overlay_open, app_running>>

\* the color dialog returns chosen: set_color only if chosen.isValid()
pick_color(chosen) ==
    /\ app_running
    /\ color' = IF chosen.valid /\ ColorAccepted(chosen) THEN chosen.rgb
                                                          ELSE color
    /\ call' = [op |-> "_pick_color", arg |-> chosen]
    /\ outcome' = IF chosen.valid THEN ColorOutcome(variant, chosen) ELSE Quiet
    /\ frame' = NoFrame
    /\ UNCHANGED <<variant, thickness, brightness, geometry, visible, screen,
                   panel>>

toggle_overlay ==
    /\ app_running
    /\ IF visible
       THEN /\ visible' = FALSE
            /\ toggle_btn' = "Turn On"
       ELSE /\ visible' = TRUE
            /\ toggle_btn' = "Turn Off"
    /\ call' = [op |-> "_toggle_overlay", arg |-> NotNumeric]
    /\ outcome' = Quiet
    /\ frame' = NoFrame
    /\ UNCHANGED <<variant, thickness, brightness, color, geometry, screen,
                   brightness_slider, thickness_slider, panel_open,
                   overlay_open, app_running>>

\* a panic button that toggles: it shows an overlay that was hidden
panic_off_as_toggle ==
    /\ app_running
    /\ IF visible
       THEN /\ visible' = FALSE
            /\ toggle_btn' = "Turn On"
       ELSE /\ visible' = TRUE
            /\ toggle_btn' = "Turn Off"
    /\ call' = [op |-> "_panic_off", arg |-> NotNumeric]
    /\ outcome' = Quiet
    /\ frame' = NoFrame
    /\ UNCHANGED <<variant, thickness, brightness, color, geometry, screen,
                   brightness_slider, thickness_slider, panel_open,
                   overlay_open, app_running>>

panic_off ==
    /\ app_running
    /\ visible' = FALSE
    /\ toggle_btn' = "Turn On"
    /\ call' = [op |-> "_panic_off", arg |-> NotNumeric]
    /\ outcome' = Quiet
    /\ frame' = NoFrame
    /\ UNCHANGED <<variant, thickness, brightness, color, geometry, screen,
                   brightness_slider, thickness_slider, panel_open,
                   overlay_open, app_running>>

\* _close_all that only quits
close_all_keeps_overlay ==
    /\ app_running' = FALSE
    /\ UNCHANGED <<overlay_open, visible>>

\* _close_all: self.overlay.close(), QApplication.instance().quit()
close_all ==
    /\ overlay_open' = FALSE
    /\ visible' = FALSE
    /\ app_running' = FALSE

\* the Close All button is clicked
close_btn_clicked ==
    /\ app_running
    /\ close_all
    /\ call' = [op |-> "_close_all", arg |-> NotNumeric]
    /\ outcome' = Quiet
    /\ frame' = NoFrame
    /\ UNCHANGED <<variant, thickness, brightness, color, geometry, screen,
                   brightness_slider, thickness_slider, toggle_btn,
                   panel_open>>

\* the control panel's window is closed
closeEvent ==
    /\ app_running
    /\ panel_open
    /\ close_all
    /\ panel_open' = FALSE
    /\ call' = [op |-> "closeEvent", arg |-> NotNumeric]
    /\ outcome' = Quiet
    /\ frame' = NoFrame
    /\ UNCHANGED <<variant, thickness, brightness, color, geometry, screen,
                   brightness_slider, thickness_slider, toggle_btn>>

\* app.exec() has returned and sys.exit(main()) ends the process: the
\* control panel's window is gone
exit ==
    /\ ~app_running
    /\ panel_open
    /\ panel_open' = FALSE
    /\ call' = [op |-> "sys.exit", arg |-> NotNumeric]
    /\ outcome' = Quiet
    /\ frame' = NoFrame
    /\ UNCHANGED <<variant, thickness, brightness, color, geometry, visible,
                   screen, brightness_slider, thickness_slider, toggle_btn,
                   overlay_open, app_running>>

----------------------------------------------------------------------------
(* The program *)

Next ==
    \/ \E value \in BrightnessArgs : set_brightness_percent(value)
    \/ \E pixels \in ThicknessArgs : set_thickness(pixels)
    \/ \E new_color \in ColorArgs : set_color(new_color)
    \/ ScreenChange
    \/ apply_screen_geometry
    \/ paintEvent

Spec == Init /\ [][Next]_vars

\* the geometry poll alone: the display changes, the timer ticks (every
\* GEOMETRY_POLL_INTERVAL_MS, as long as the application runs) and the
\* overlay is painted
NextPoll ==
    \/ ScreenChange
    \/ apply_screen_geometry
    \/ paintEvent

SpecPoll == Init /\ [][NextPoll]_vars /\ WF_vars(apply_screen_geometry)

\* the program driven through its control panel
InitPanel ==
    /\ Init
    /\ screen \in PanelScreens

NextPanel ==
    \/ \E value \in SliderPercents : on_brightness_changed(value)
    \/ \E value \in SliderPixels : on_thickness_changed(value)
    \/ \E i \in DOMAIN Presets : apply_preset(Presets[i])
    \/ \E chosen \in PickedColors : pick_color(chosen)
    \/ toggle_overlay
    \/ panic_off
    \/ close_btn_clicked
    \/ closeEvent
    \/ exit
    \/ (app_running /\ ScreenChange /\ screen' \in PanelScreens)
    \/ (app_running /\ apply_screen_geometry)
    \/ (app_running /\ paintEvent)

SpecPanel == InitPanel /\ [][NextPanel]_vars

----------------------------------------------------------------------------
(* Claims: the parameter store *)

\* the last operation was this setter, called with a number
NumericCall(op) == call.op = op /\ IsNumeric(call.arg)

\* C1: after set_brightness_percent(v) with v in [0,200] the stored
\* brightness is v/100 exactly; with a numeric v outside [0,200] it is 0.0
\* (v < 0) or 2.0 (v > 200) and a warning was recorded.
C1_BrightnessClampedWithWarning ==
    NumericCall("set_brightness_percent") =>
        LET v == call.arg.val IN
        /\ (Float(0) <= v /\ v <= Float(200)) => 100 * brightness = v
        /\ v < Float(0) => (brightness = Float(0) /\ outcome.warned)
        /\ v > Float(200) => (brightness = Float(2) /\ outcome.warned)

C3_ParametersWithinLimits ==
    /\ 1 <= thickness /\ thickness <= 900
    /\ Float(0) <= brightness /\ brightness <= Float(2)

----------------------------------------------------------------------------
(* Claims: the rounded frame *)

\* the last operation painted the rounded frame on a surface with
\* width > 0 and height > 0
RoundedPainted ==
    /\ call.op = "paintEvent"
    /\ variant = "ringlight"
    /\ geometry.width > 0 /\ geometry.height > 0

\* C5: the effective thickness of a rounded frame is at most
\* min(width, height)/2 - margin, margin = 10, on every surface with
\* width > 0 and height > 0.
C5_EffectiveThicknessWithinHalf ==
    RoundedPainted =>
        2 * frame[1].size <= Min(geometry.width, geometry.height) - 2 * 10

\* C6: in a rounded frame on a surface with width > 0 and height > 0 neither
\* the inner nor the outer rectangle has a negative width or height.
C6_RectanglesNotInverted ==
    RoundedPainted =>
        /\ frame[1].hole.width >= 0 /\ frame[1].hole.height >= 0
        /\ frame[1].rect.width >= 0 /\ frame[1].rect.height >= 0

\* C7 as claimed: effective_thickness = min(thickness, max(1, m/2 - 10)) with
\* m = min(width, height) and m/2 the exact half, also for odd m.
C7_EffectiveThicknessExactHalf ==
    RoundedPainted =>
        2 * frame[1].size =
            Min(2 * thickness, Max(2, Min(geometry.width, geometry.height) - 20))

\* C7 as amended: effective_thickness = min(thickness, max(1, floor(m/2) - 10))
\* with m = min(width, height); thickness 220 on 1920x1080 gives 220 and
\* thickness 900 on 200x200 gives 90.
C7_EffectiveThicknessFloorHalf ==
    RoundedPainted =>
        /\ frame[1].size =
              Min(thickness,
                  Max(1, (Min(geometry.width, geometry.height) \div 2) - 10))
        /\ (thickness = 220 /\ geometry = QRect(0, 0, 1920, 1080)) =>
              frame[1].size = 220
        /\ (thickness = 900 /\ geometry = QRect(0, 0, 200, 200)) =>
              frame[1].size = 90

\* thickness 900 was painted on a surface whose smaller side is odd
C7_Witness ==
    /\ RoundedPainted
    /\ thickness = 900
    /\ geometry = QRect(0, 0, 201, 300)
    /\ frame[1].size = 90

\* the stored thicknesses the inner radius is compared over
ThicknessRange ==
    (1 .. OUTER_CORNER_RADIUS + Over)
    \cup {DEFAULT_THICKNESS} \cup (MAX_THICKNESS .. MAX_THICKNESS + Over)

\* C8: inner_radius = max(0, 20 - effective_thickness); it is never
\* negative, it is 0 whenever effective_thickness >= 20, and on the same
\* surface no smaller stored thickness gives a smaller inner radius.
C8_InnerRadius ==
    RoundedPainted =>
        /\ frame[1].hole_radius = Max(0, 20 - frame[1].size)
        /\ frame[1].hole_radius >= 0
        /\ frame[1].size >= 20 => frame[1].hole_radius = 0
        /\ \A t \in ThicknessRange :
              t <= thickness =>
                  inner_radius(t, geometry.width, geometry.height)
                      >= frame[1].hole_radius

\* a frame thinner than the outer radius was painted: its inner corners
\* are still round
C8_Witness ==
    /\ RoundedPainted
    /\ thickness = 19
    /\ frame[1].size = 19
    /\ frame[1].hole_radius = 1

\* the stored brightness is a whole percent
WholePercent == brightness % 2 = 0

\* C9 as claimed: for a brightness of a whole percent the alpha of the
\* rounded frame is clamp(round(255 * brightness), 0, 255): 255 from
\* brightness 1.0 on, and below that the whole number nearest to
\* 255 * brightness.
C9_AlphaRounded ==
    (RoundedPainted /\ WholePercent) =>
        IF brightness >= Float(1)
        THEN frame[1].alpha = 255
        ELSE /\ 2 * (200 * frame[1].alpha - 255 * brightness) <= 200
             /\ 2 * (255 * brightness - 200 * frame[1].alpha) <= 200

\* C9 as amended: for every reachable brightness the alpha of the rounded
\* frame is clamp(floor(255 * brightness), 0, 255), 255 * brightness
\* truncated to a whole number; it is 255 for every brightness >= 1.0 and
\* never exceeds 255.
C9_AlphaTruncated ==
    RoundedPainted =>
        /\ frame[1].alpha >= 0 /\ frame[1].alpha <= 255
        /\ brightness >= Float(1) => frame[1].alpha = 255
        /\ brightness < Float(1) =>
              /\ 200 * frame[1].alpha <= 255 * brightness
              /\ 255 * brightness < 200 * (frame[1].alpha + 1)

\* brightness 1% was painted: 255 * 0.01 = 2.55 gave alpha 2
C9_Witness ==
    /\ RoundedPainted
    /\ WholePercent
    /\ brightness = Hundredths(1)
    /\ frame[1].alpha = 2

\* C10: in both renderers a paint on a surface with width <= 0 or
\* height <= 0 emits no draw command and raises nothing.
C10_DegenerateSurfaceEmptyFrame ==
    (call.op = "paintEvent" /\ (geometry.width <= 0 \/ geometry.height <= 0)) =>
        /\ frame = << >>
        /\ outcome.raised = ""

----------------------------------------------------------------------------
(* Claims: the layered bloom *)

\* the last operation painted the layered bloom
BloomPainted ==
    /\ call.op = "paintEvent"
    /\ variant = "ringlight_original"

\* the intensities and size multipliers of the four layers, in hundredths
Intensity == <<100, 70, 45, 25>>

SizeMultiplier == <<100, 75, 55, 40>>

\* the first of the four commands of layer i
First(i) == 4 * (i - 1) + 1

\* C11 as claimed: the alpha of each bloom layer is
\* clamp(round(255 * brightness * intensity), 0, 220), the whole number
\* nearest to the product capped at 220; none exceeds 220 and at brightness
\* 200% the base layer has exactly 220.
C11_LayerAlphaRounded ==
    BloomPainted =>
        /\ \A i \in 1 .. 4 :
              LET a == frame[First(i)].alpha
                  num == 255 * brightness * Intensity[i]
                  den == 200 * 100
              IN  /\ a <= 220
                  /\ IF num >= 220 * den
                     THEN a = 220
                     ELSE /\ 2 * (a * den - num) <= den
                          /\ 2 * (num - a * den) <= den
        /\ brightness = Float(2) => frame[1].alpha = 220

\* C11 as amended: the alpha of each bloom layer is
\* clamp(floor(255 * brightness * intensity), 0, 220), the product truncated
\* to a whole number and capped at 220; none exceeds 220 and at brightness
\* 200% the base layer has exactly 220.
C11_LayerAlphaTruncated ==
    BloomPainted =>
        /\ \A i \in 1 .. 4 :
              LET a == frame[First(i)].alpha
                  num == 255 * brightness * Intensity[i]
                  den == 200 * 100
              IN  /\ a >= 0 /\ a <= 220
                  /\ \A k \in 0 .. 3 : frame[First(i) + k].alpha = a
                  /\ IF num >= 220 * den
                     THEN a = 220
                     ELSE a * den <= num /\ num < (a + 1) * den
        /\ brightness = Float(2) => frame[1].alpha = 220

\* brightness 200% was painted: the base layer is capped at 220 and the
\* last layer has 255 * 2.0 * 0.25 = 127.5 truncated to 127
C11_Witness ==
    /\ BloomPainted
    /\ brightness = Float(2)
    /\ frame[First(1)].alpha = 220
    /\ frame[First(4)].alpha = 127

\* C19: each of the four bloom layers, in the order (1.00,1.00),
\* (0.70,0.75), (0.45,0.55), (0.25,0.40), has band size
\* max(1, floor(t * size_multiplier)), t the capped thickness, and emits
\* exactly four bands of that depth, top, bottom, left and right, each
\* spanning the full orthogonal dimension of the surface.
C19_LayerBands ==
    BloomPainted =>
        /\ Len(frame) = 4 * 4
        /\ \A i \in 1 .. 4 :
              LET w == geometry.width
                  h == geometry.height
                  t == Min(thickness, Max(1, Min(w, h)))
                  size == Max(1, (t * SizeMultiplier[i]) \div 100)
                  top == frame[First(i)]
                  bottom == frame[First(i) + 1]
                  left == frame[First(i) + 2]
                  right == frame[First(i) + 3]
              IN  /\ \A k \in 0 .. 3 :
                        /\ frame[First(i) + k].cmd = "fillRect"
                        /\ frame[First(i) + k].layer = i
                        /\ frame[First(i) + k].size = size
                  /\ top.edge = "TOP" /\ top.rect = QRect(0, 0, w, size)
                  /\ bottom.edge = "BOTTOM"
                  /\ bottom.rect = QRect(0, h - size, w, size)
                  /\ left.edge = "LEFT" /\ left.rect = QRect(0, 0, size, h)
                  /\ right.edge = "RIGHT"
                  /\ right.rect = QRect(w - size, 0, size, h)

\* thickness 19 was painted on 1920x1080: the bands are 19, 14, 10 and 7 deep
C19_Witness ==
    /\ BloomPainted
    /\ thickness = 19
    /\ geometry = QRect(0, 0, 1920, 1080)
    /\ frame[First(2)].size = 14
    /\ frame[First(3)].size = 10
    /\ frame[First(4)].size = 7
    /\ frame[First(4) + 3].rect = QRect(1913, 0, 7, 1080)

\* C20: in the bloom renderer, on a surface with width >= 1 and
\* height >= 1, the capped thickness t = min(thickness, max(1, min(w, h)))
\* has 1 <= t <= min(w, h); band sizes and alphas do not increase from one
\* layer to the next, every band size is in [1, min(w, h)] and no band
\* extends past the opposite edge of the surface.
C20_BandsWithinSurface ==
    (BloomPainted /\ geometry.width >= 1 /\ geometry.height >= 1) =>
        LET w == geometry.width
            h == geometry.height
            t == frame[First(1)].size
        IN  /\ t = Min(thickness, Max(1, Min(w, h)))
            /\ 1 <= t /\ t <= Min(w, h)
            /\ \A i \in 1 .. 3 :
                  /\ frame[First(i)].size >= frame[First(i + 1)].size
                  /\ frame[First(i)].alpha >= frame[First(i + 1)].alpha
            /\ \A n \in 1 .. Len(frame) :
                  /\ 1 <= frame[n].size /\ frame[n].size <= Min(w, h)
                  /\ 0 <= frame[n].rect.x
                  /\ 0 <= frame[n].rect.y
                  /\ frame[n].rect.x + frame[n].rect.width <= w
                  /\ frame[n].rect.y + frame[n].rect.height <= h

\* thickness 900 was painted on 20x20: the bands are capped at 20
C20_Witness ==
    /\ BloomPainted
    /\ thickness = 900
    /\ geometry = QRect(0, 0, 20, 20)
    /\ frame[First(1)].size = 20
    /\ frame[First(4)].size = 8

----------------------------------------------------------------------------
(* Claims: setters, poll and paint as operations *)

Setters == {"set_brightness_percent", "set_thickness", "set_color"}

\* the stored parameters are a state a render can proceed from
StoredValid ==
    /\ thickness >= 1
    /\ Float(0) <= brightness /\ brightness <= Float(2)
    /\ color \in {DEFAULT_COLOR, WARM, SOFT}

\* C13: every setter is idempotent, a second call in a row with the same
\* argument leaves the stored (thickness, brightness, color) as the first
\* left them; and after a call with a valid argument (a whole thickness
\* >= 1, a percent in [0,200], a valid QColor) the value read back is the
\* value set.
C13_SettersIdempotent ==
    /\ [][ (call.op \in Setters /\ call'.op = call.op /\ call'.arg = call.arg) =>
             (thickness' = thickness /\ brightness' = brightness
                 /\ color' = color) ]_vars
    /\ [](/\ ((NumericCall("set_thickness") /\ call.arg.val >= Float(1)
                   /\ call.arg.val % Float(1) = 0) =>
                 Float(thickness) = call.arg.val)
           /\ ((NumericCall("set_brightness_percent")
                   /\ Float(0) <= call.arg.val /\ call.arg.val <= Float(200)) =>
                 100 * brightness = call.arg.val)
           /\ ((call.op = "set_color" /\ call.arg.kind = "QColor"
                   /\ call.arg.valid) =>
                 color = call.arg.rgb))

\* an out-of-range brightness was set (once or repeatedly) and clamped
C13_Witness ==
    /\ NumericCall("set_brightness_percent")
    /\ call.arg.val = Float(201)
    /\ brightness = Float(2)
    /\ thickness = 900
    /\ color = WARM

\* C15: no setter call with any argument, wrongly typed ones included, no
\* geometry poll and no paint ends in an exception, and the stored
\* parameters remain valid.
C15_NothingRaises ==
    /\ outcome.raised = ""
    /\ StoredValid

\* C16: a geometry poll with a resolvable display whose bounds differ from
\* the stored ones stores the display's bounds and signals a re-render; with
\* equal bounds it changes nothing and signals nothing; with no resolvable
\* display it leaves the bounds and signals nothing.  Thickness, brightness,
\* color and visibility never change.
C16_PollFrame ==
    [][ (call'.op = "_apply_screen_geometry" /\ screen' = screen) =>
          /\ ((screen # NoScreen /\ geometry # screen) =>
                 (geometry' = screen /\ outcome'.updated))
          /\ ((screen # NoScreen /\ geometry = screen) =>
                 (geometry' = geometry /\ ~outcome'.updated))
          /\ (screen = NoScreen =>
                 (geometry' = geometry /\ ~outcome'.updated))
          /\ outcome'.raised = ""
          /\ thickness' = thickness /\ brightness' = brightness
          /\ color' = color /\ visible' = visible ]_vars

\* a poll found no display: the bounds of the last display and the
\* parameters stayed
C16_Witness ==
    /\ call.op = "_apply_screen_geometry"
    /\ screen = NoScreen
    /\ outcome = Outcome("", TRUE, FALSE)
    /\ geometry = QRect(0, 0, 1920, 1080)
    /\ thickness = 900

\* C17: right after a poll tick that ran while the display was resolvable,
\* the stored bounds equal the display's; and with fair poll ticks, once the
\* display stays resolvable and unchanged the stored bounds eventually equal
\* its bounds and stay equal.
C17_StalenessBoundedByOnePoll ==
    /\ [][ (call'.op = "_apply_screen_geometry" /\ screen' = screen
              /\ screen # NoScreen) => geometry' = screen' ]_vars
    /\ \A d \in Displays : <>[](screen = d) => <>[](geometry = d)

\* a poll picked up a reconfigured display
C17_Witness ==
    /\ call.op = "_apply_screen_geometry"
    /\ outcome.updated
    /\ screen = QRect(0, 0, 201, 300)
    /\ geometry = screen

\* C18: a paint, in either renderer and on any surface, leaves the stored
\* thickness, brightness and color as they were: the capped thickness is
\* not written back.
C18_PaintKeepsParameters ==
    [][ call'.op = "paintEvent" =>
          (thickness' = thickness /\ brightness' = brightness
              /\ color' = color) ]_vars

\* thickness 900 was painted capped to 90 on 200x200 and is still 900
C18_Witness ==
    /\ RoundedPainted
    /\ geometry = QRect(0, 0, 200, 200)
    /\ frame[1].size = 90
    /\ thickness = 900

----------------------------------------------------------------------------
(* Claims: the control panel *)

\* C12: after any preset, applied in any state the control panel can reach,
\* the overlay's (brightness, thickness, color) is the preset's triple,
\* whether or not a slider already held the preset's value; the four
\* presets are Warm (100, 250, #FFF0DC), Cool (120, 280, #FFFFFF),
\* Soft (80, 300, #FFFAF0) and Intense (150, 200, #FFFFFF).
C12_PresetTriple ==
    /\ call.op = "_apply_preset" =>
          /\ 100 * brightness = Float(call.arg.brightness)
          /\ thickness = call.arg.thickness
          /\ color = call.arg.color.rgb
    /\ Presets = << Preset(100, 250, QColor(<<255, 240, 220>>)),
                    Preset(120, 280, QColor(<<255, 255, 255>>)),
                    Preset(80, 300, QColor(<<255, 250, 240>>)),
                    Preset(150, 200, QColor(<<255, 255, 255>>)) >>

\* Cool was applied: brightness 1.20, thickness 280, white
C12_Witness ==
    /\ call.op = "_apply_preset"
    /\ call.arg = Presets[2]
    /\ brightness = Hundredths(120)
    /\ thickness = 280
    /\ color = <<255, 255, 255>>

\* C14: once the control panel is closed, by its window's close event or
\* after Close All, the overlay is closed and hidden and the application
\* has quit; and right after Close All the overlay is closed and hidden.
C14_CloseTearsDownOverlay ==
    /\ ~panel_open => (~overlay_open /\ ~visible /\ ~app_running)
    /\ call.op \in {"_close_all", "closeEvent"} =>
          (~overlay_open /\ ~visible /\ ~app_running)

\* the panel's window was closed while the overlay was hidden by panic
C14_Witness ==
    /\ call.op = "closeEvent"
    /\ ~panel_open
    /\ ~overlay_open
    /\ toggle_btn = "Turn On"
    /\ thickness = 900

\* C21: in every state the control panel of ringlight.py can reach (slider
\* moves, presets, colour picks, toggle, panic, geometry polls), the
\* thickness slider's value is the stored thickness and the brightness
\* slider's value is 100 times the stored brightness.
C21_SlidersShowStoredValues ==
    variant = "ringlight" =>
        /\ thickness_slider = thickness
        /\ Float(brightness_slider) = 100 * brightness

\* both sliders were dragged to an end of their ranges
C21_Witness ==
    /\ variant = "ringlight"
    /\ call.op = "_on_thickness_changed"
    /\ thickness_slider = 900
    /\ thickness = 900
    /\ brightness_slider = 0
    /\ brightness = Float(0)
    /\ ~visible

\* a step of _toggle_overlay (a display change keeps call and changes screen)
ToggleStep == call'.op = "_toggle_overlay" /\ screen' = screen

\* C22: in ringlight.py, after the panic action the overlay is hidden
\* whatever its visibility was; a hidden overlay stays hidden across every
\* step that is not a toggle (parameter changes, presets, colour picks,
\* geometry polls); while the application runs the toggle button reads
\* "Turn Off" exactly when the overlay is visible and "Turn On" exactly when
\* it is hidden; and every toggle flips the visibility, so two consecutive
\* toggles restore it.
C22_PanicHidesUntilToggle ==
    /\ [](variant = "ringlight" =>
            /\ (call.op = "_panic_off" => ~visible)
            /\ (app_running =>
                   /\ (toggle_btn = "Turn Off" <=> visible)
                   /\ (toggle_btn = "Turn On" <=> ~visible)))
    /\ [][ variant = "ringlight" =>
             /\ ((~visible /\ ~ToggleStep) => ~visible')
             /\ (ToggleStep => visible' = ~visible) ]_vars

\* the overlay is still hidden after a preset and a geometry poll that
\* resized it
C22_Witness ==
    /\ variant = "ringlight"
    /\ app_running
    /\ call.op = "_apply_screen_geometry"
    /\ outcome.updated
    /\ ~visible
    /\ toggle_btn = "Turn On"
    /\ color = SOFT
    /\ thickness = 300

============================================================================
